---- MODULE Spec2Model ----
(***************************************************************************)
(* Model of the OctoPrint API client (octoprint_api.py) and of its         *)
(* command-line front end (printer.py).                                    *)
(*                                                                         *)
(* The state is the library client object `op` (its endpoint dictionary    *)
(* and its request header), the values last handed to the constructor or   *)
(* to the two property setters (`given`), and the record `run` of the last *)
(* entry point that was executed: either one method call on `op`, or one   *)
(* execution of the command-line program (which builds a client of its     *)
(* own).  The server is the environment: each request is answered by a     *)
(* reply drawn from a small set, or not answered at all.                   *)
(***************************************************************************)
EXTENDS Integers, Sequences, FiniteSets, TLC

VARIABLES op, given, run

vars == <<op, given, run>>

----------------------------------------------------------------------------
(* Python values *)

None == [tag |-> "None"]

Some(v) == [tag |-> "Some", v |-> v]

\* Python truthiness of an optional argument (None is falsy), by type
truthy_flag(a) == a # None /\ a.v

truthy_int(a) == a # None /\ a.v # 0

truthy_str(a) == a # None /\ a.v # ""

\* a dictionary with no key, and one with the key k when the condition holds
EmptyDict == [k \in {} |-> ""]

entry_if(cond, k, v) == IF cond THEN k :> v ELSE EmptyDict

\* str.lower() on one character
UpperCase == <<"A","B","C","D","E","F","G","H","I","J","K","L","M",
               "N","O","P","Q","R","S","T","U","V","W","X","Y","Z">>

LowerCase == <<"a","b","c","d","e","f","g","h","i","j","k","l","m",
               "n","o","p","q","r","s","t","u","v","w","x","y","z">>

char_lower(c) ==
    IF \E i \in DOMAIN UpperCase : UpperCase[i] = c
    THEN LowerCase[CHOOSE i \in DOMAIN UpperCase : UpperCase[i] = c]
    ELSE c

\* str.lower() on a string given as its sequence of characters
str_lower(s) == [i \in DOMAIN s |-> char_lower(s[i])]

\* the string spelled by a sequence of characters
RECURSIVE str(_)
str(s) == IF s = <<>> THEN "" ELSE Head(s) \o str(Tail(s))

\* 'c' in s, for a string s given as its sequence of characters
char_in(c, s) == \E i \in DOMAIN s : s[i] = c

----------------------------------------------------------------------------
(* Exception classes of octoprint_api.py, and the ones of the Python       *)
(* runtime and of the requests library that can cross it.                  *)

BaseClass(c) ==
    CASE c = "ServerNotFoundException"  -> "HTTPException"
      [] c = "NotAuthorizedException"   -> "OctoprintException"
      [] c = "PrinterBusyException"     -> "OctoprintException"
      [] c = "FileException"            -> "OctoprintException"
      [] c = "LocationException"        -> "FileException"
      [] c = "UnsupportedFileException" -> "FileException"
      [] OTHER                          -> "Exception"

RECURSIVE issubclass(_, _)
issubclass(c, d) ==
    IF c = d THEN TRUE
    ELSE IF c = "Exception" THEN FALSE
    ELSE issubclass(BaseClass(c), d)

\* the outcome of a Python call: a returned value or a raised exception
Return(v) == [kind |-> "return", exc |-> "", value |-> v]

Raise(e, v) == [kind |-> "raise", exc |-> e, value |-> v]

----------------------------------------------------------------------------
(* The server and the transport *)

MaxTool == 1

StatusCodes == {100, 200, 302, 400, 401, 409, 500}

\* response bodies: an empty body, an empty JSON object, and JSON documents
\* shaped like the server's temperature, status and file answers
ToolBody == "{\"tool0\": {\"actual\": 21}, \"bed\": {\"actual\": 60}}"

StateBody == "{\"state\": {\"text\": \"Operational\"}, \"temperature\": {}}"

\* a status answer with two heaters and the temperature history
HeatersBody == "{\"state\": {\"text\": \"Operational\"}, \"temperature\": {\"tool0\": {\"actual\": 21.5, \"target\": 0.0}, \"bed\": {\"actual\": 60.0, \"target\": 60.0}, \"history\": []}}"

\* a status answer whose heater has no setpoint
NoTargetBody == "{\"state\": {\"text\": \"Printing\"}, \"temperature\": {\"bed\": {\"actual\": 60.0}}}"

FilesBody == "{\"files\": []}"

\* a file answer with one entry, and one whose second entry has a name only
OneFileBody == "{\"files\": [{\"name\": \"a.gco\", \"size\": 3, \"origin\": \"local\"}]}"

BareFileBody == "{\"files\": [{\"name\": \"a.gco\", \"size\": 3, \"origin\": \"local\"}, {\"name\": \"b.gco\"}]}"

Bodies == {"", "{}", ToolBody, StateBody, HeatersBody, NoTargetBody, FilesBody,
           OneFileBody, BareFileBody}

\* the reply to one request: a response, or no contact with the server
Response(s, b) == [reached |-> TRUE, status_code |-> s, text |-> b]

Unreachable == [reached |-> FALSE, status_code |-> 0, text |-> ""]

\* replies to a GET: any body with a final status below 400, no body with
\* the other statuses
GetReplies ==
    {Response(s, b) : s \in {c \in StatusCodes : c >= 200 /\ c < 400}, b \in Bodies}
        \cup {Response(s, "") : s \in StatusCodes} \cup {Unreachable}

PostReplies == {Response(s, "") : s \in StatusCodes} \cup {Unreachable}

\* a JSON number written with a fraction (a Python float), held as its
\* number of tenths: 21.5 is Float(215)
Float(tenths) == [tenths |-> tenths]

\* response.json(): the decoded body, a JSON object being a function on its
\* keys, a JSON array a sequence, a JSON string a string and a JSON number
\* without fraction an integer; ValueError when the body is not JSON
response_json(text) ==
    CASE text = "{}" -> Return(EmptyDict)
      [] text = ToolBody ->
             Return([tool0 |-> [actual |-> 21], bed |-> [actual |-> 60]])
      [] text = StateBody ->
             Return([state |-> [text |-> "Operational"], temperature |-> EmptyDict])
      [] text = HeatersBody ->
             Return([state |-> [text |-> "Operational"],
                     temperature |->
                         [tool0   |-> [actual |-> Float(215), target |-> Float(0)],
                          bed     |-> [actual |-> Float(600), target |-> Float(600)],
                          history |-> <<>>]])
      [] text = NoTargetBody ->
             Return([state |-> [text |-> "Printing"],
                     temperature |-> [bed |-> [actual |-> Float(600)]]])
      [] text = FilesBody -> Return([files |-> <<>>])
      [] text = OneFileBody ->
             Return([files |-> <<[name |-> "a.gco", size |-> 3, origin |-> "local"]>>])
      [] text = BareFileBody ->
             Return([files |-> <<[name |-> "a.gco", size |-> 3, origin |-> "local"],
                                 [name |-> "b.gco"]>>])
      [] OTHER -> Raise("ValueError", text)

----------------------------------------------------------------------------
(* class Api: construction and the two properties *)

\* _set_url with a slip in one suffix
_set_url_slip(self, base_url) ==
    [self EXCEPT !._url =
        [base          |-> base_url,
         version       |-> base_url \o "/api/version",
         files         |-> base_url \o "/api/files",
         connection    |-> base_url \o "/api/connection",
         printer       |-> base_url \o "/api/printer",
         printhead     |-> base_url \o "/api/printer/printhead",
         tool          |-> base_url \o "/api/printer/tool",
         bed           |-> base_url \o "/api/printer/bed",
         sd            |-> base_url \o "/api/printer/sd",
         command       |-> base_url \o "/api/printer/command",
         job           |-> base_url \o "/api/job"]
        @@ ("files-sd" :> base_url \o "/api/files/sdcard")
        @@ ("files-local" :> base_url \o "/api/files/local")]

_set_url(self, base_url) ==
    [self EXCEPT !._url =
        [base          |-> base_url,
         version       |-> base_url \o "/api/version",
         files         |-> base_url \o "/api/files",
         connection    |-> base_url \o "/api/connection",
         printer       |-> base_url \o "/api/printer",
         printhead     |-> base_url \o "/api/printer/printhead",
         tool          |-> base_url \o "/api/printer/tool",
         bed           |-> base_url \o "/api/printer/bed",
         sd            |-> base_url \o "/api/printer/sd",
         command       |-> base_url \o "/api/printer/command",
         job           |-> base_url \o "/api/job"]
        @@ ("files-sd" :> base_url \o "/api/files/sd")
        @@ ("files-local" :> base_url \o "/api/files/local")]

\* the object before __init__ has set its attributes
NewObject == [_url |-> EmptyDict, _header |-> EmptyDict, _debug |-> FALSE]

__init__(base_url, api_key, debug) ==
    [_set_url(NewObject, base_url) EXCEPT
        !._header = ("X-Api-Key" :> api_key) @@ ("content-type" :> "application/json"),
        !._debug = debug]

apikey(self) == self._header["X-Api-Key"]

\* the setter writing the key under a header name of another spelling
apikey_setter_other_name(self, api_key) ==
    [self EXCEPT !._header = ("X-API-Key" :> api_key) @@ self._header]

apikey_setter(self, api_key) ==
    [self EXCEPT !._header = ("X-Api-Key" :> api_key) @@ self._header]

url(self) == self._url["base"]

\* the setter replacing the base entry only
url_setter_base_only(self, url_string) ==
    [self EXCEPT !._url = ("base" :> url_string) @@ self._url]

url_setter(self, url_string) == _set_url(self, url_string)

----------------------------------------------------------------------------
(* Request plumbing.  Both primitives yield the requests they put on the   *)
(* wire (`sent`) and the outcome of the call (`result`); `net` is the      *)
(* reply of the environment to the request.  The POST body is recorded as  *)
(* the JSON document that json.dumps(request) denotes.                     *)

\* what requests.get / requests.post do when the server cannot be contacted
transport_error == "requests.ConnectionError"

\* _get_request with the 409 test of _post_request copied into it
_get_request_busy(self, url_, param, net) ==
    LET req == [method |-> "GET", url |-> url_, headers |-> self._header,
                params |-> param]
    IN  [sent   |-> <<req>>,
         result |-> IF ~net.reached THEN Raise(transport_error, net)
                    ELSE IF net.status_code = 409
                        THEN Raise("PrinterBusyException", net)
                    ELSE IF net.status_code = 401
                        THEN Raise("NotAuthorizedException", net)
                    ELSE IF net.status_code >= 400
                        THEN Raise("HTTPException", net)
                    ELSE response_json(net.text)]

\* _get_request with > 400 in place of >= 400
_get_request_above(self, url_, param, net) ==
    LET req == [method |-> "GET", url |-> url_, headers |-> self._header,
                params |-> param]
    IN  [sent   |-> <<req>>,
         result |-> IF ~net.reached THEN Raise(transport_error, net)
                    ELSE IF net.status_code = 401
                        THEN Raise("NotAuthorizedException", net)
                    ELSE IF net.status_code > 400
                        THEN Raise("HTTPException", net)
                    ELSE response_json(net.text)]

_get_request(self, url_, param, net) ==
    LET req == [method |-> "GET", url |-> url_, headers |-> self._header,
                params |-> param]
    IN  [sent   |-> <<req>>,
         result |-> IF ~net.reached THEN Raise(transport_error, net)
                    ELSE IF net.status_code = 401
                        THEN Raise("NotAuthorizedException", net)
                    ELSE IF net.status_code >= 400
                        THEN Raise("HTTPException", net)
                    ELSE response_json(net.text)]

\* _post_request with the general test >= 400 placed first
_post_request_general_first(self, url_, request, net) ==
    LET req == [method |-> "POST", url |-> url_, headers |-> self._header,
                data |-> request]
    IN  [sent   |-> <<req>>,
         result |-> IF ~net.reached THEN Raise(transport_error, net)
                    ELSE IF net.status_code >= 400
                        THEN Raise("HTTPException", net)
                    ELSE IF net.status_code = 409
                        THEN Raise("PrinterBusyException", net)
                    ELSE IF net.status_code = 401
                        THEN Raise("NotAuthorizedException", net)
                    ELSE Return(net)]

\* _post_request that posts once more when the printer is busy
_post_request_retry(self, url_, request, net) ==
    LET req == [method |-> "POST", url |-> url_, headers |-> self._header,
                data |-> request]
    IN  [sent   |-> IF net.reached /\ net.status_code = 409
                    THEN <<req, req>> ELSE <<req>>,
         result |-> IF ~net.reached THEN Raise(transport_error, net)
                    ELSE IF net.status_code = 409
                        THEN Raise("PrinterBusyException", net)
                    ELSE IF net.status_code = 401
                        THEN Raise("NotAuthorizedException", net)
                    ELSE IF net.status_code >= 400
                        THEN Raise("HTTPException", net)
                    ELSE Return(net)]

_post_request(self, url_, request, net) ==
    LET req == [method |-> "POST", url |-> url_, headers |-> self._header,
                data |-> request]
    IN  [sent   |-> <<req>>,
         result |-> IF ~net.reached THEN Raise(transport_error, net)
                    ELSE IF net.status_code = 409
                        THEN Raise("PrinterBusyException", net)
                    ELSE IF net.status_code = 401
                        THEN Raise("NotAuthorizedException", net)
                    ELSE IF net.status_code >= 400
                        THEN Raise("HTTPException", net)
                    ELSE Return(net)]

----------------------------------------------------------------------------
(* Domain operations of class Api *)

get_status(self, history, limit, net) ==
    LET hist_str == IF history THEN "true" ELSE "false"
        param == [history |-> hist_str, limit |-> limit]
    IN  _get_request(self, self._url["printer"], Some(param), net)

get_version(self, net) == _get_request(self, self._url["version"], None, net)

get_connection(self, net) == _get_request(self, self._url["connection"], None, net)

home(self, x, y, z, net) ==
    LET home_set == (IF truthy_flag(x) THEN <<"x">> ELSE <<>>)
                    \o (IF truthy_flag(y) THEN <<"y">> ELSE <<>>)
                    \o (IF truthy_flag(z) THEN <<"z">> ELSE <<>>)
        request == [command |-> "home", axes |-> home_set]
    IN  _post_request(self, self._url["printhead"], request, net)

\* jog testing the truth of each value, as home does, instead of "is not None"
jog_truthy(self, x, y, z, net) ==
    LET request == ("command" :> "jog")
                   @@ entry_if(truthy_int(x), "x", x.v)
                   @@ entry_if(truthy_int(y), "y", y.v)
                   @@ entry_if(truthy_int(z), "z", z.v)
    IN  _post_request(self, self._url["printhead"], request, net)

jog(self, x, y, z, net) ==
    LET request == ("command" :> "jog")
                   @@ entry_if(x # None, "x", x.v)
                   @@ entry_if(y # None, "y", y.v)
                   @@ entry_if(z # None, "z", z.v)
    IN  _post_request(self, self._url["printhead"], request, net)

extrude(self, amount, net) ==
    LET request == [command |-> "extrude", amount |-> amount]
    IN  _post_request(self, self._url["tool"], request, net)

select_tool(self, tool, net) ==
    LET request == [command |-> "select", tool |-> "tool" \o ToString(tool)]
    IN  _post_request(self, self._url["tool"], request, net)

set_tool_temp(self, temp, tool, net) ==
    LET target_string == "tool" \o ToString(tool)
        request == [command |-> "target", targets |-> (target_string :> temp)]
    IN  _post_request(self, self._url["tool"], request, net)

\* _get_temperatures indexing the body without testing for the key
_get_temperatures_unguarded(self, url_, target_string, net) ==
    LET param == [history |-> "false", limit |-> 2]
        got == _get_request(self, url_, Some(param), net)
        return_val == got.result.value
    IN  [sent   |-> got.sent,
         result |-> IF got.result.kind = "raise" THEN got.result
                    ELSE IF target_string \in DOMAIN return_val
                        THEN Return(Some(return_val[target_string]))
                    ELSE Raise("KeyError", target_string)]

_get_temperatures(self, url_, target_string, net) ==
    LET param == [history |-> "false", limit |-> 2]
        got == _get_request(self, url_, Some(param), net)
        return_val == got.result.value
    IN  [sent   |-> got.sent,
         result |-> IF got.result.kind = "raise" THEN got.result
                    ELSE IF target_string \in DOMAIN return_val
                        THEN Return(Some(return_val[target_string]))
                    ELSE Return(None)]

get_tool_temp(self, tool, net) ==
    LET target_string == "tool" \o ToString(tool)
    IN  _get_temperatures(self, self._url["tool"], target_string, net)

set_bed_temp(self, temp, net) ==
    LET request == [command |-> "target", target |-> temp]
    IN  _post_request(self, self._url["bed"], request, net)

get_bed_temp(self, net) ==
    LET target_string == "bed"
    IN  _get_temperatures(self, self._url["bed"], target_string, net)

get_job_info(self, net) == _get_request(self, self._url["job"], None, net)

job_start(self, net) ==
    _post_request(self, self._url["job"], [command |-> "start"], net)

job_restart(self, net) ==
    _post_request(self, self._url["job"], [command |-> "restart"], net)

job_pause(self, net) ==
    _post_request(self, self._url["job"], [command |-> "pause"], net)

job_cancel(self, net) ==
    _post_request(self, self._url["job"], [command |-> "cancel"], net)

get_connection_status(self, net) ==
    _get_request(self, self._url["connection"], None, net)

connect(self, port, baudrate, profile, save, autoconnect, net) ==
    LET request == ("command" :> "connect")
                   @@ entry_if(truthy_str(port), "port", port.v)
                   @@ entry_if(truthy_int(baudrate), "baudrate", ToString(baudrate.v))
                   @@ entry_if(truthy_str(profile), "printerProfile", profile.v)
                   @@ entry_if(truthy_flag(save), "save", TRUE)
                   @@ entry_if(truthy_flag(autoconnect), "autoconnect", TRUE)
    IN  _post_request(self, self._url["connection"], request, net)

disconnect(self, net) ==
    _post_request(self, self._url["connection"], [command |-> "disconnect"], net)

get_files(self, location, net) ==
    LET url_ == IF location \in {Some("local"), Some("sdcard")}
                THEN self._url["files"] \o "/" \o location.v
                ELSE self._url["files"]
    IN  _get_request(self, url_, None, net)

select_file(self, name, location, start_print, net) ==
    LET request == [command |-> "select", print |-> start_print]
        request_url == self._url["files"] \o "/" \o location \o "/" \o name
    IN  _post_request(self, request_url, request, net)

JobCommands == {"start", "cancel", "restart", "pause"}

\* command is None or Some(sequence of characters)
job(self, command, net) ==
    IF command = None
    THEN [sent |-> <<>>, result |-> Raise("AttributeError", None)]
    ELSE IF str(str_lower(command.v)) \in JobCommands
    THEN LET request == [command |-> str(str_lower(command.v))]
         IN  _post_request(self, self._url["job"], request, net)
    ELSE [sent |-> <<>>, result |-> Return(None)]

----------------------------------------------------------------------------
(* The command-line program printer.py.  `arguments` is the namespace that *)
(* parse_args() builds; each handler yields the requests sent, the outcome *)
(* and the lines printed.                                                  *)

_JOB_COMMAND_LIST == {"start", "cancel", "pause", "restart"}

init_printer(arguments) == __init__(arguments.url, arguments.apikey, FALSE)

\* a handler that prints nothing and hands the outcome of its one call on
Quiet(r) == [sent |-> r.sent, result |-> IF r.result.kind = "raise" THEN r.result
                                         ELSE Return(None),
             stdout |-> <<>>]

\* str.ljust and str.rjust with blanks: what a width in a format field does
\* to a string (left-aligned) and to a number (right-aligned)
RECURSIVE ljust(_, _)
ljust(s, width) == IF Len(s) >= width THEN s ELSE ljust(s \o " ", width)

RECURSIVE rjust(_, _)
rjust(s, width) == IF Len(s) >= width THEN s ELSE rjust(" " \o s, width)

\* the format field {:5.1f} on a float: one digit after the point, at least
\* five characters
format_5_1f(v) ==
    LET t == v.tenths
        a == IF t < 0 THEN 0 - t ELSE t
        sign == IF t < 0 THEN "-" ELSE ""
    IN  rjust(sign \o ToString(a \div 10) \o "." \o ToString(a % 10), 5)

\* 'Printer status: {0}'.format(text)
StatusLine(text) == "Printer status: " \o text

\* '{2:5} temp: {0:5.1f} C; setpoint: {1:5.1f} C'.format(actual, target, k)
HeaterLine(actual, target, k) ==
    ljust(k, 5) \o " temp: " \o format_5_1f(actual)
        \o " C; setpoint: " \o format_5_1f(target) \o " C"

\* '{0}\t{1}\t{2}'.format(name, size, origin)
FileLine(name, size, origin) == name \o "\t" \o ToString(size) \o "\t" \o origin

\* list.sort() on heater names: the names in ascending order
KeyOrder == <<"bed", "chamber", "history", "tool0", "tool1">>

sorted(keys) == SelectSeq(KeyOrder, LAMBDA k : k \in keys)

home_func(arguments, net) ==
    LET printer == init_printer(arguments)
        x == char_in("x", str_lower(arguments.axis))
        y == char_in("y", str_lower(arguments.axis))
        z == char_in("z", str_lower(arguments.axis))
    IN  Quiet(home(printer, Some(x), Some(y), Some(z), net))

\* the loop of status_func over the sorted heater names: the lines printed
\* and how the loop ended
RECURSIVE heater_lines(_, _)
heater_lines(temps, t_keys) ==
    IF t_keys = <<>> THEN [stdout |-> <<>>, result |-> Return(None)]
    ELSE LET k == Head(t_keys)
         IN  IF "actual" \notin DOMAIN temps[k]
             THEN [stdout |-> <<>>, result |-> Raise("KeyError", "actual")]
             ELSE IF "target" \notin DOMAIN temps[k]
             THEN [stdout |-> <<>>, result |-> Raise("KeyError", "target")]
             ELSE LET rest == heater_lines(temps, Tail(t_keys))
                  IN  [stdout |-> <<HeaterLine(temps[k]["actual"],
                                               temps[k]["target"], k)>>
                                      \o rest.stdout,
                       result |-> rest.result]

\* with -m the line printed is the decoded answer as Python writes it, held
\* here as the decoded answer
status_func(arguments, net) ==
    LET printer == init_printer(arguments)
        r == get_status(printer, ~arguments.no_history, arguments.history, net)
        response == r.result.value
    IN  IF r.result.kind = "raise"
        THEN [sent |-> r.sent, result |-> r.result, stdout |-> <<>>]
        ELSE IF arguments.machine_readable
        THEN [sent |-> r.sent, result |-> Return(None), stdout |-> <<response>>]
        ELSE IF "state" \notin DOMAIN response
        THEN [sent |-> r.sent, result |-> Raise("KeyError", "state"), stdout |-> <<>>]
        ELSE IF "text" \notin DOMAIN response["state"]
        THEN [sent |-> r.sent, result |-> Raise("KeyError", "text"), stdout |-> <<>>]
        ELSE IF "temperature" \notin DOMAIN response
        THEN [sent |-> r.sent, result |-> Raise("KeyError", "temperature"),
              stdout |-> <<StatusLine(response["state"]["text"])>>]
        ELSE LET temps == response["temperature"]
                 t_keys == IF "history" \in DOMAIN temps
                           THEN DOMAIN temps \ {"history"} ELSE DOMAIN temps
                 loop == heater_lines(temps, sorted(t_keys))
             IN  [sent |-> r.sent, result |-> loop.result,
                  stdout |-> <<StatusLine(response["state"]["text"])>> \o loop.stdout]

jog_func(arguments, net) ==
    LET printer == init_printer(arguments)
    IN  Quiet(jog(printer, arguments.x, arguments.y, arguments.z, net))

extrude_func(arguments, net) ==
    LET printer == init_printer(arguments)
    IN  Quiet(extrude(printer, arguments.amount, net))

tool_func(arguments, net) ==
    LET printer == init_printer(arguments)
    IN  Quiet(set_tool_temp(printer, arguments.temperature, arguments.number, net))

bed_func(arguments, net) ==
    LET printer == init_printer(arguments)
    IN  Quiet(set_bed_temp(printer, arguments.temperature, net))

connection_func(arguments, net) ==
    LET printer == init_printer(arguments)
    IN  IF arguments.connect
        THEN Quiet(connect(printer, arguments.port, arguments.baudrate,
                           arguments.profile, arguments.save,
                           arguments.autoconnect, net))
        ELSE IF arguments.disconnect
        THEN Quiet(disconnect(printer, net))
        ELSE LET r == get_connection_status(printer, net)
             IN  IF r.result.kind = "raise"
                 THEN [sent |-> r.sent, result |-> r.result, stdout |-> <<>>]
                 ELSE [sent |-> r.sent, result |-> Return(None),
                       stdout |-> <<r.result.value>>]

job_control_func(arguments, net) ==
    LET printer == init_printer(arguments)
        command == IF str(arguments.command) \in _JOB_COMMAND_LIST
                   THEN Some(arguments.command) ELSE None
        r == job(printer, command, net)
    IN  [sent |-> r.sent, result |-> r.result, stdout |-> <<>>]

file_select_func(arguments, net) ==
    LET printer == init_printer(arguments)
    IN  Quiet(select_file(printer, arguments.filename, arguments.location,
                          arguments.start_print, net))

\* the loop of file_list_func over the entries: the lines printed and how
\* the loop ended
RECURSIVE file_lines(_)
file_lines(items) ==
    IF items = <<>> THEN [stdout |-> <<>>, result |-> Return(None)]
    ELSE LET fileitem == Head(items)
         IN  IF "name" \notin DOMAIN fileitem
             THEN [stdout |-> <<>>, result |-> Raise("KeyError", "name")]
             ELSE IF "size" \notin DOMAIN fileitem
             THEN [stdout |-> <<>>, result |-> Raise("KeyError", "size")]
             ELSE IF "origin" \notin DOMAIN fileitem
             THEN [stdout |-> <<>>, result |-> Raise("KeyError", "origin")]
             ELSE LET rest == file_lines(Tail(items))
                  IN  [stdout |-> <<FileLine(fileitem["name"], fileitem["size"],
                                             fileitem["origin"])>>
                                      \o rest.stdout,
                       result |-> rest.result]

\* with --long the line printed is the decoded answer as Python writes it,
\* held here as the decoded answer
file_list_func(arguments, net) ==
    LET printer == init_printer(arguments)
        r == get_files(printer, None, net)
        files == r.result.value
    IN  IF r.result.kind = "raise"
        THEN [sent |-> r.sent, result |-> r.result, stdout |-> <<>>]
        ELSE IF arguments.long
        THEN [sent |-> r.sent, result |-> Return(None), stdout |-> <<files>>]
        ELSE IF "files" \notin DOMAIN files
        THEN [sent |-> r.sent, result |-> Raise("KeyError", "files"), stdout |-> <<>>]
        ELSE LET loop == file_lines(files["files"])
             IN  [sent |-> r.sent, result |-> loop.result, stdout |-> loop.stdout]

\* the handler that set_defaults(func=...) attached to the sub-command
call_func(arguments, net) ==
    CASE arguments.func = "jog_func"         -> jog_func(arguments, net)
      [] arguments.func = "home_func"        -> home_func(arguments, net)
      [] arguments.func = "status_func"      -> status_func(arguments, net)
      [] arguments.func = "tool_func"        -> tool_func(arguments, net)
      [] arguments.func = "bed_func"         -> bed_func(arguments, net)
      [] arguments.func = "extrude_func"     -> extrude_func(arguments, net)
      [] arguments.func = "connection_func"  -> connection_func(arguments, net)
      [] arguments.func = "file_select_func" -> file_select_func(arguments, net)
      [] arguments.func = "file_list_func"   -> file_list_func(arguments, net)
      [] arguments.func = "job_control_func" -> job_control_func(arguments, net)

\* the choices=... restrictions of the sub-command parsers: parse_args()
\* reports a value outside them and ends the process with status 2
choices_ok(arguments) ==
    CASE arguments.func = "job_control_func" ->
             str(arguments.command) \in _JOB_COMMAND_LIST
      [] arguments.func = "file_select_func" ->
             arguments.location \in {"local", "sdcard"}
      [] arguments.func = "file_list_func" ->
             arguments.location \in {None, Some("local"), Some("sdcard")}
      [] OTHER -> TRUE

\* 'Error executing command. Error information: {0}'.format(e), the
\* exception e holding the response it was raised with
ErrorLine(e) ==
    "Error executing command. Error information: <Response ["
        \o ToString(e.status_code) \o "]>"

\* the classes named by the except clause of parser_func
caught(exc) ==
    issubclass(exc, "HTTPException") \/ issubclass(exc, "OctoprintException")

\* parser_func from parse_args() on, and the exit status of the process:
\* 0 when parser_func returns, 1 when an exception leaves it
parser_func(arguments, net) ==
    IF ~choices_ok(arguments)
    THEN [sent |-> <<>>, result |-> Raise("SystemExit", 2), stdout |-> <<>>,
          exit |-> 2]
    ELSE LET r == call_func(arguments, net)
         IN  IF r.result.kind = "raise" /\ caught(r.result.exc)
             THEN [sent |-> r.sent, result |-> r.result,
                   stdout |-> Append(r.stdout, ErrorLine(r.result.value)),
                   exit |-> 0]
             ELSE IF r.result.kind = "raise"
             THEN [sent |-> r.sent, result |-> r.result, stdout |-> r.stdout,
                   exit |-> 1]
             ELSE [sent |-> r.sent, result |-> r.result, stdout |-> r.stdout,
                   exit |-> 0]

----------------------------------------------------------------------------
(* Inputs *)

BaseUrls == {"http://printer.local:5000", "http://octopi"}

ApiKeys == {"ABC123", "Romanes eunt domus"}

Flags == {None, Some(TRUE), Some(FALSE)}

Deltas == {None, Some(0), Some(10)}

Temps == {0, 200}

Amounts == {5, -5}

Tools == 0 .. MaxTool

Locations == {None, Some("local"), Some("sdcard"), Some("usb")}

Commands == {<<"s","t","a","r","t">>, <<"S","T","A","R","T">>,
             <<"C","a","n","c","e","l">>, <<"p","a","u","s","e">>,
             <<"r","e","s","t","a","r","t">>,
             <<"b","l","a","s","t"," ","o","f","f">>}

Axes == {<<"x">>, <<"X","Y">>, <<"x","y","z">>, <<"a">>}

----------------------------------------------------------------------------
(* State *)

NoReply == [reached |-> FALSE, status_code |-> -1, text |-> ""]

\* the record of one method call on the client `op`
ApiRun(name, args, net, r) ==
    [entry |-> "api", name |-> name, args |-> args, net |-> net,
     sent |-> r.sent, result |-> r.result, stdout |-> <<>>, exit |-> -1]

\* the record of one execution of printer.py
CliRun(arguments, net, r) ==
    [entry |-> "cli", name |-> arguments.func, args |-> arguments, net |-> net,
     sent |-> r.sent, result |-> r.result, stdout |-> r.stdout, exit |-> r.exit]

\* the record of an assignment to a property of `op`
SetRun(name, value) ==
    [entry |-> "set", name |-> name, args |-> <<value>>, net |-> NoReply,
     sent |-> <<>>, result |-> Return(None), stdout |-> <<>>, exit |-> -1]

Init ==
    \E base_url \in BaseUrls, api_key \in {"ABC123"} :
        /\ op = __init__(base_url, api_key, FALSE)
        /\ given = [base_url |-> base_url, api_key |-> api_key]
        /\ run = [entry |-> "new", name |-> "__init__",
                  args |-> <<base_url, api_key>>, net |-> NoReply,
                  sent |-> <<>>, result |-> Return(None), stdout |-> <<>>,
                  exit |-> -1]

----------------------------------------------------------------------------
(* Assignments to the properties of the client *)

SetApikey ==
    \E api_key \in ApiKeys :
        /\ op' = apikey_setter(op, api_key)
        /\ given' = [given EXCEPT !.api_key = api_key]
        /\ run' = SetRun("apikey", api_key)

SetUrl ==
    \E url_string \in BaseUrls :
        /\ op' = url_setter(op, url_string)
        /\ given' = [given EXCEPT !.base_url = url_string]
        /\ run' = SetRun("url", url_string)

(* Method calls on the client *)

GetStatus ==
    \E history \in BOOLEAN, limit \in {2}, net \in GetReplies :
        /\ run' = ApiRun("get_status", <<history, limit>>, net,
                         get_status(op, history, limit, net))
        /\ UNCHANGED <<op, given>>

GetVersion ==
    \E net \in GetReplies :
        /\ run' = ApiRun("get_version", <<>>, net, get_version(op, net))
        /\ UNCHANGED <<op, given>>

GetConnection ==
    \E net \in GetReplies :
        /\ run' = ApiRun("get_connection", <<>>, net, get_connection(op, net))
        /\ UNCHANGED <<op, given>>

Home ==
    \E x \in Flags, y \in {Some(TRUE), Some(FALSE)}, z \in {None, Some(TRUE)},
       net \in PostReplies :
        /\ run' = ApiRun("home", <<x, y, z>>, net, home(op, x, y, z, net))
        /\ UNCHANGED <<op, given>>

Jog ==
    \E x \in Deltas, y \in {None, Some(10)}, z \in {None, Some(0)},
       net \in PostReplies :
        /\ run' = ApiRun("jog", <<x, y, z>>, net, jog(op, x, y, z, net))
        /\ UNCHANGED <<op, given>>

Extrude ==
    \E amount \in Amounts, net \in PostReplies :
        /\ run' = ApiRun("extrude", <<amount>>, net, extrude(op, amount, net))
        /\ UNCHANGED <<op, given>>

SelectTool ==
    \E tool \in Tools, net \in PostReplies :
        /\ run' = ApiRun("select_tool", <<tool>>, net, select_tool(op, tool, net))
        /\ UNCHANGED <<op, given>>

SetToolTemp ==
    \E temp \in Temps, tool \in Tools, net \in PostReplies :
        /\ run' = ApiRun("set_tool_temp", <<temp, tool>>, net,
                         set_tool_temp(op, temp, tool, net))
        /\ UNCHANGED <<op, given>>

GetToolTemp ==
    \E tool \in Tools, net \in GetReplies :
        /\ run' = ApiRun("get_tool_temp", <<tool>>, net, get_tool_temp(op, tool, net))
        /\ UNCHANGED <<op, given>>

SetBedTemp ==
    \E temp \in Temps, net \in PostReplies :
        /\ run' = ApiRun("set_bed_temp", <<temp>>, net, set_bed_temp(op, temp, net))
        /\ UNCHANGED <<op, given>>

GetBedTemp ==
    \E net \in GetReplies :
        /\ run' = ApiRun("get_bed_temp", <<>>, net, get_bed_temp(op, net))
        /\ UNCHANGED <<op, given>>

GetJobInfo ==
    \E net \in GetReplies :
        /\ run' = ApiRun("get_job_info", <<>>, net, get_job_info(op, net))
        /\ UNCHANGED <<op, given>>

JobStart ==
    \E net \in PostReplies :
        /\ run' = ApiRun("job_start", <<>>, net, job_start(op, net))
        /\ UNCHANGED <<op, given>>

JobRestart ==
    \E net \in PostReplies :
        /\ run' = ApiRun("job_restart", <<>>, net, job_restart(op, net))
        /\ UNCHANGED <<op, given>>

JobPause ==
    \E net \in PostReplies :
        /\ run' = ApiRun("job_pause", <<>>, net, job_pause(op, net))
        /\ UNCHANGED <<op, given>>

JobCancel ==
    \E net \in PostReplies :
        /\ run' = ApiRun("job_cancel", <<>>, net, job_cancel(op, net))
        /\ UNCHANGED <<op, given>>

GetConnectionStatus ==
    \E net \in GetReplies :
        /\ run' = ApiRun("get_connection_status", <<>>, net,
                         get_connection_status(op, net))
        /\ UNCHANGED <<op, given>>

Connect ==
    \E port \in {None, Some("/dev/ttyACM0")}, baudrate \in {None, Some(115200)},
       profile \in {None, Some("_default")}, save \in {None, Some(TRUE)},
       autoconnect \in {None, Some(TRUE)}, net \in PostReplies :
        /\ (profile = None) = (save = None)
        /\ (save = None) = (autoconnect = None)
        /\ run' = ApiRun("connect", <<port, baudrate, profile, save, autoconnect>>, net,
                connect(op, port, baudrate, profile, save, autoconnect, net))
        /\ UNCHANGED <<op, given>>

Disconnect ==
    \E net \in PostReplies :
        /\ run' = ApiRun("disconnect", <<>>, net, disconnect(op, net))
        /\ UNCHANGED <<op, given>>

GetFiles ==
    \E location \in Locations, net \in GetReplies :
        /\ run' = ApiRun("get_files", <<location>>, net, get_files(op, location, net))
        /\ UNCHANGED <<op, given>>

SelectFile ==
    \E name \in {"benchy.gcode"}, location \in {"local", "sdcard"},
       start_print \in BOOLEAN, net \in PostReplies :
        /\ run' = ApiRun("select_file", <<name, location, start_print>>, net,
                select_file(op, name, location, start_print, net))
        /\ UNCHANGED <<op, given>>

Job ==
    \E command \in {None} \cup {Some(c) : c \in Commands}, net \in PostReplies :
        /\ run' = ApiRun("job", <<command>>, net, job(op, command, net))
        /\ UNCHANGED <<op, given>>

ApiNext ==
    \/ GetStatus \/ GetVersion \/ GetConnection \/ Home \/ Jog \/ Extrude
    \/ SelectTool \/ SetToolTemp \/ GetToolTemp \/ SetBedTemp \/ GetBedTemp
    \/ GetJobInfo \/ JobStart \/ JobRestart \/ JobPause \/ JobCancel
    \/ GetConnectionStatus \/ Connect \/ Disconnect \/ GetFiles \/ SelectFile
    \/ Job

(* Executions of printer.py: the namespace holds the url and the key that  *)
(* the command line or printer.cfg supplied, and the sub-command's options *)

CliUrl == "http://printer.local:5000"

CliKey == "ABC123"

CliJog ==
    \E x \in Deltas, y \in {None}, z \in {None}, net \in PostReplies :
        LET arguments == [func |-> "jog_func", url |-> CliUrl, apikey |-> CliKey,
                  x |-> x, y |-> y, z |-> z]
        IN  /\ run' = CliRun(arguments, net, parser_func(arguments, net))
            /\ UNCHANGED <<op, given>>

CliHome ==
    \E axis \in Axes, net \in PostReplies :
        LET arguments == [func |-> "home_func", url |-> CliUrl, apikey |-> CliKey,
                  axis |-> axis]
        IN  /\ run' = CliRun(arguments, net, parser_func(arguments, net))
            /\ UNCHANGED <<op, given>>

CliStatus ==
    \E machine_readable \in BOOLEAN, no_history \in BOOLEAN, net \in GetReplies :
        LET arguments == [func |-> "status_func", url |-> CliUrl, apikey |-> CliKey,
                  machine_readable |-> machine_readable, history |-> 2,
                  no_history |-> no_history]
        IN  /\ run' = CliRun(arguments, net, parser_func(arguments, net))
            /\ UNCHANGED <<op, given>>

CliTool ==
    \E number \in Tools, temperature \in Temps, net \in PostReplies :
        LET arguments == [func |-> "tool_func", url |-> CliUrl, apikey |-> CliKey,
                  number |-> number, temperature |-> temperature]
        IN  /\ run' = CliRun(arguments, net, parser_func(arguments, net))
            /\ UNCHANGED <<op, given>>

CliBed ==
    \E temperature \in Temps, net \in PostReplies :
        LET arguments == [func |-> "bed_func", url |-> CliUrl, apikey |-> CliKey,
                  temperature |-> temperature]
        IN  /\ run' = CliRun(arguments, net, parser_func(arguments, net))
            /\ UNCHANGED <<op, given>>

CliExtrude ==
    \E amount \in Amounts, net \in PostReplies :
        LET arguments == [func |-> "extrude_func", url |-> CliUrl, apikey |-> CliKey,
                  amount |-> amount]
        IN  /\ run' = CliRun(arguments, net, parser_func(arguments, net))
            /\ UNCHANGED <<op, given>>

CliConnection ==
    \E mode \in {<<TRUE, FALSE>>, <<FALSE, TRUE>>, <<FALSE, FALSE>>},
       port \in {None, Some("/dev/ttyACM0")}, net \in GetReplies :
        /\ mode[1] \/ mode[2] => net \in PostReplies
        /\ ~mode[1] => port = None
        /\ LET arguments == [func |-> "connection_func", url |-> CliUrl,
                             apikey |-> CliKey,
                             connect |-> mode[1], disconnect |-> mode[2],
                             port |-> port, baudrate |-> None, profile |-> None,
                             save |-> None, autoconnect |-> None]
           IN  run' = CliRun(arguments, net, parser_func(arguments, net))
        /\ UNCHANGED <<op, given>>

CliFileSelect ==
    \E location \in {"local", "sdcard", "usb"}, start_print \in BOOLEAN,
       net \in PostReplies :
        LET arguments == [func |-> "file_select_func", url |-> CliUrl, apikey |-> CliKey,
                  filename |-> "benchy.gcode", location |-> location,
                  start_print |-> start_print]
        IN  /\ run' = CliRun(arguments, net, parser_func(arguments, net))
            /\ UNCHANGED <<op, given>>

CliFileList ==
    \E long \in BOOLEAN, location \in Locations, net \in GetReplies :
        LET arguments == [func |-> "file_list_func", url |-> CliUrl, apikey |-> CliKey,
                  long |-> long, location |-> location]
        IN  /\ run' = CliRun(arguments, net, parser_func(arguments, net))
            /\ UNCHANGED <<op, given>>

CliJob ==
    \E command \in Commands, net \in PostReplies :
        LET arguments == [func |-> "job_control_func", url |-> CliUrl, apikey |-> CliKey,
                  command |-> command]
        IN  /\ run' = CliRun(arguments, net, parser_func(arguments, net))
            /\ UNCHANGED <<op, given>>

CliNext ==
    \/ CliJog \/ CliHome \/ CliStatus \/ CliTool \/ CliBed \/ CliExtrude
    \/ CliConnection \/ CliFileSelect \/ CliFileList \/ CliJob

Next == SetApikey \/ SetUrl \/ ApiNext \/ CliNext

Spec == Init /\ [][Next]_vars

----------------------------------------------------------------------------
(* Properties *)

\* the last entry point was a method of the client that sent a request of
\* the given method and received a response
Answered(method) ==
    /\ run.entry = "api"
    /\ run.sent # <<>>
    /\ run.sent[1].method = method
    /\ run.net.reached

\* the classes that the command-line program reports as API errors
Classified(exc) ==
    issubclass(exc, "HTTPException") \/ issubclass(exc, "OctoprintException")

\* the top-level keys of the JSON documents the server answers with
IsJson(text) == text \in Bodies \ {""}

TopLevelKeys(text) ==
    CASE text = ToolBody -> {"tool0", "bed"}
      [] text \in {StateBody, HeatersBody, NoTargetBody} -> {"state", "temperature"}
      [] text \in {FilesBody, OneFileBody, BareFileBody} -> {"files"}
      [] OTHER -> {}

\* the operations that hand the decoded body on unchanged
Verbatim == {"get_status", "get_version", "get_connection", "get_job_info",
             "get_connection_status", "get_files"}

\* C1: a POST answered with 409 raises PrinterBusyException, with 401
\* NotAuthorizedException, with any other status >= 400 HTTPException, and
\* with a status < 400 returns the response object; the outcome is exactly
\* the one of its status.
C1_PostClassification ==
    Answered("POST") =>
        LET s == run.net.status_code
        IN  /\ s = 409 => run.result = Raise("PrinterBusyException", run.net)
            /\ s = 401 => run.result = Raise("NotAuthorizedException", run.net)
            /\ s >= 400 /\ s \notin {401, 409} =>
                   run.result = Raise("HTTPException", run.net)
            /\ s < 400 => run.result = Return(run.net)

C1_Witness ==
    /\ Answered("POST")
    /\ run.net.status_code = 409
    /\ run.result.exc = "PrinterBusyException"

\* C2: a GET answered with 401 raises NotAuthorizedException, with any other
\* status >= 400 (409 included) HTTPException and never
\* PrinterBusyException, and with a status < 400 returns the decoded JSON
\* body (the body being a JSON document).
C2_GetClassification ==
    Answered("GET") =>
        LET s == run.net.status_code
        IN  /\ s = 401 => run.result = Raise("NotAuthorizedException", run.net)
            /\ s >= 400 /\ s # 401 => run.result = Raise("HTTPException", run.net)
            /\ run.result.exc # "PrinterBusyException"
            /\ s < 400 /\ IsJson(run.net.text) =>
                   /\ run.result.kind = "return"
                   /\ run.name \in Verbatim =>
                          DOMAIN run.result.value = TopLevelKeys(run.net.text)

C2_Witness ==
    /\ Answered("GET")
    /\ run.net.status_code = 409
    /\ run.result.exc = "HTTPException"

\* C3 as stated: an operation whose request was answered with a status
\* outside 200..299, other than 401 and 409, raises HTTPException, and an
\* operation returns a value only on a 2xx status.
C3_Only2xxSucceeds ==
    (Answered("GET") \/ Answered("POST")) =>
        LET s == run.net.status_code
        IN  /\ s \notin 200 .. 299 /\ s \notin {401, 409} =>
                   run.result.kind = "raise" /\ run.result.exc = "HTTPException"
            /\ run.result.kind = "return" => s \in 200 .. 299

\* C3 amended: an operation whose request was answered with a status >= 400,
\* other than 401 and 409, raises HTTPException, an operation returns a
\* value only on a status < 400, and a status < 400 (1xx and 3xx included)
\* is never reported as an HTTPException or an OctoprintException.
C3_Below400Succeeds ==
    (Answered("GET") \/ Answered("POST")) =>
        LET s == run.net.status_code
        IN  /\ s >= 400 /\ s \notin {401, 409} =>
                   run.result.kind = "raise" /\ run.result.exc = "HTTPException"
            /\ run.result.kind = "return" => s < 400
            /\ s < 400 => ~Classified(run.result.exc)
            /\ s < 400 /\ run.sent[1].method = "POST" => run.result.kind = "return"

C3_Witness ==
    /\ Answered("POST")
    /\ run.net.status_code = 302
    /\ run.result.kind = "return"

\* C4: an operation whose request could not reach the server raises
\* ServerNotFoundException.
C4_UnreachableClassified ==
    (run.entry = "api" /\ run.sent # <<>> /\ ~run.net.reached) =>
        run.result.kind = "raise" /\ run.result.exc = "ServerNotFoundException"

\* C5: job(command) with a command that, lower-cased, is none of start,
\* cancel, restart, pause sends no request and fails with ValidationError.
C5_JobValidation ==
    (/\ run.entry = "api"
     /\ run.name = "job"
     /\ run.args[1] # None
     /\ str(str_lower(run.args[1].v)) \notin {"start", "cancel", "restart", "pause"}) =>
        /\ run.sent = <<>>
        /\ run.result.kind = "raise"
        /\ run.result.exc = "ValidationError"

\* C6: when the operation invoked by the command-line program raises an
\* HTTPException or an OctoprintException, the program prints a message
\* and ends with a non-zero exit status.
C6_CliErrorExit ==
    (/\ run.entry = "cli"
     /\ run.result.kind = "raise"
     /\ Classified(run.result.exc)) =>
        /\ run.stdout # <<>>
        /\ run.exit # 0

\* the input of the last method call was valid: only job() rejects input
ValidInput ==
    run.name = "job" =>
        /\ run.args[1] # None
        /\ str(str_lower(run.args[1].v)) \in {"start", "cancel", "restart", "pause"}

\* C7: a method of the client called with valid input sends exactly one
\* request, whatever the reply; one execution of the command-line program
\* sends at most one request.
C7_OneRequest ==
    /\ (run.entry = "api" /\ ValidInput) => Len(run.sent) = 1
    /\ run.entry = "cli" => Len(run.sent) <= 1

C7_Witness ==
    /\ run.entry = "api"
    /\ run.net.reached
    /\ run.net.status_code = 409
    /\ run.result.exc = "PrinterBusyException"
    /\ Len(run.sent) = 1

\* C8: every request of a method call carries in X-Api-Key the key most
\* recently given to the constructor or assigned to apikey, and an
\* assignment to apikey leaves the base URL and every endpoint URL as they
\* were.
C8_CurrentKey ==
    /\ [](run.entry = "api" =>
            \A i \in DOMAIN run.sent :
                run.sent[i].headers["X-Api-Key"] = given.api_key)
    /\ [][(run'.entry = "set" /\ run'.name = "apikey") => op'._url = op._url]_vars

C8_Witness ==
    /\ run.entry = "api"
    /\ run.sent # <<>>
    /\ given.api_key = "Romanes eunt domus"
    /\ run.sent[1].headers["X-Api-Key"] = "Romanes eunt domus"

\* the documented endpoints and their suffixes
EndpointNames ==
    {"version", "files", "files-sd", "files-local", "connection", "printer",
     "printhead", "tool", "bed", "sd", "command", "job"}

EndpointSuffix(k) ==
    CASE k = "version"     -> "/api/version"
      [] k = "files"       -> "/api/files"
      [] k = "files-sd"    -> "/api/files/sd"
      [] k = "files-local" -> "/api/files/local"
      [] k = "connection"  -> "/api/connection"
      [] k = "printer"     -> "/api/printer"
      [] k = "printhead"   -> "/api/printer/printhead"
      [] k = "tool"        -> "/api/printer/tool"
      [] k = "bed"         -> "/api/printer/bed"
      [] k = "sd"          -> "/api/printer/sd"
      [] k = "command"     -> "/api/printer/command"
      [] k = "job"         -> "/api/job"

\* C9: in every state every endpoint URL of the client is the current base
\* URL followed by the suffix of the endpoint, the base URL being the one
\* most recently given, and no method call changes the endpoints.
C9_EndpointsFollowBase ==
    /\ [](/\ url(op) = given.base_url
          /\ \A k \in DOMAIN op._url \ {"base"} :
                 op._url[k] = url(op) \o EndpointSuffix(k))
    /\ [][run'.entry \in {"api", "cli"} => op'._url = op._url]_vars

C9_Witness ==
    /\ run.entry = "set"
    /\ run.name = "url"
    /\ url(op) = "http://octopi"
    /\ op._url["job"] = "http://octopi/api/job"

\* C10: for every base URL u the endpoints built from u are the twelve
\* documented ones, each u followed by its documented suffix, and no other
\* (the dictionary also keeps u itself under "base").
C10_TwelveEndpoints ==
    \A u \in BaseUrls \cup {given.base_url} :
        LET built == _set_url(NewObject, u)._url
        IN  /\ DOMAIN built \ {"base"} = EndpointNames
            /\ \A k \in EndpointNames : built[k] = u \o EndpointSuffix(k)
            /\ (u = given.base_url) => op._url = built

C10_Witness ==
    /\ run.entry = "set"
    /\ run.name = "url"
    /\ given.base_url = "http://printer.local:5000"
    /\ Cardinality(DOMAIN op._url \ {"base"}) = 12
    /\ op._url["files-sd"] = "http://printer.local:5000/api/files/sd"

\* the last entry point was jog(x, y, z), called on the client or through
\* the jog sub-command; its three arguments and the base URL it used
JogCalled ==
    \/ run.entry = "api" /\ run.name = "jog"
    \/ run.entry = "cli" /\ run.name = "jog_func"

JogArgs ==
    IF run.entry = "api" THEN run.args
    ELSE <<run.args.x, run.args.y, run.args.z>>

JogBase == IF run.entry = "api" THEN given.base_url ELSE run.args.url

JogAxes == <<"x", "y", "z">>

\* C11: jog(x, y, z) posts to the printhead endpoint an envelope whose
\* command is "jog" and that holds, for each axis, the key of the axis with
\* the given value exactly when a value was given: no key for an omitted
\* axis, the key with 0 for a given 0, and no key besides these.
C11_JogEnvelope ==
    JogCalled =>
        /\ Len(run.sent) = 1
        /\ run.sent[1].method = "POST"
        /\ run.sent[1].url = JogBase \o "/api/printer/printhead"
        /\ LET data == run.sent[1].data
           IN  /\ "command" \in DOMAIN data
               /\ data["command"] = "jog"
               /\ \A i \in 1 .. 3 :
                      /\ (JogAxes[i] \in DOMAIN data) = (JogArgs[i] # None)
                      /\ JogArgs[i] # None => data[JogAxes[i]] = JogArgs[i].v
               /\ \A k \in DOMAIN data : k \in {"command", "x", "y", "z"}

C11_Witness ==
    /\ run.entry = "api"
    /\ run.name = "jog"
    /\ run.args[1] = Some(0)
    /\ run.args[2] = None
    /\ run.sent[1].data["x"] = 0
    /\ "y" \notin DOMAIN run.sent[1].data

\* the last entry point was get_tool_temp(tool) or get_bed_temp() on the
\* client; the endpoint it reads and the key it looks up
TempCalled == run.entry = "api" /\ run.name \in {"get_tool_temp", "get_bed_temp"}

TempSuffix ==
    IF run.name = "get_tool_temp" THEN "/api/printer/tool" ELSE "/api/printer/bed"

TempKey ==
    IF run.name = "get_tool_temp" THEN "tool" \o ToString(run.args[1]) ELSE "bed"

\* what the JSON documents of the server hold under a top-level key
StoredUnder(text, k) ==
    CASE text = ToolBody /\ k = "tool0" -> [actual |-> 21]
      [] text = ToolBody /\ k = "bed"   -> [actual |-> 60]

\* C12: get_tool_temp(tool=N) sends one GET to the tool endpoint with the
\* query history=false, limit=2 and, when the answer is a success whose
\* body is a JSON object, returns what the body holds under "tool<N>", or
\* None when the body has no such key, without raising; get_bed_temp does
\* the same on the bed endpoint with the key "bed".
C12_TemperatureLookup ==
    TempCalled =>
        /\ Len(run.sent) = 1
        /\ run.sent[1].method = "GET"
        /\ run.sent[1].url = given.base_url \o TempSuffix
        /\ run.sent[1].params = Some([history |-> "false", limit |-> 2])
        /\ (run.net.reached /\ run.net.status_code < 400 /\ IsJson(run.net.text)) =>
               /\ run.result.kind = "return"
               /\ IF TempKey \in TopLevelKeys(run.net.text)
                  THEN run.result.value = Some(StoredUnder(run.net.text, TempKey))
                  ELSE run.result.value = None

C12_Witness ==
    /\ run.entry = "api"
    /\ run.name = "get_tool_temp"
    /\ run.args[1] = 1
    /\ run.net.status_code = 200
    /\ run.net.text = ToolBody
    /\ run.result = Return(None)

\* C13: the file list sub-command given --location L (local or sdcard)
\* sends its GET to <base>/api/files/L, and without --location to
\* <base>/api/files.
C13_ListLocation ==
    (/\ run.entry = "cli"
     /\ run.name = "file_list_func"
     /\ run.args.location \in {None, Some("local"), Some("sdcard")}) =>
        /\ Len(run.sent) = 1
        /\ run.sent[1].method = "GET"
        /\ run.sent[1].url =
               IF run.args.location = None
               THEN run.args.url \o "/api/files"
               ELSE run.args.url \o "/api/files/" \o run.args.location.v

====
